---------------------------- MODULE Spec2Model ----------------------------
(***************************************************************************)
(* A model of the C++ binding layer qjs (quickjs.hpp / quickjs.cpp) over   *)
(* the QuickJS engine: Value handles and their reference counts, property  *)
(* access, the Result protocol of the scalar conversions, and the closure  *)
(* bridge (carrier class, trampoline, finalizer).                          *)
(*                                                                         *)
(* The engine itself (JS_DupValue, JS_FreeValue, JS_GetException, ...) is  *)
(* not part of the two binding files; its primitives are modelled by their *)
(* contract and kept apart from the binding's own code, which is           *)
(* translated statement by statement.                                      *)
(***************************************************************************)
EXTENDS Integers, Sequences, FiniteSets, TLC

(***************************************************************************)
(* Bounds                                                                  *)
(***************************************************************************)
NumVals    == 2   \* engine values (referents) a behaviour may allocate
MaxHandles == 3   \* Value objects a behaviour may construct
MaxExt     == 1   \* references to a referent held outside the handles
MaxAssign  == 1   \* executions of Value::operator= in a behaviour
MaxIdx     == 1   \* largest index set_property writes; lengths go to MaxIdx + 1
NumThreads == 2   \* threads that drive runtimes
NumRuntimes == 2  \* runtimes a behaviour may create
MaxCtx     == 2   \* engine contexts a behaviour may create
MaxWrap    == 2   \* live qjs::Context objects per engine context
MaxFn      == 2   \* closures a behaviour may register
MaxRefs    == 2   \* live Value handles per function value
MaxArgs    == 2   \* arguments of a script-side invocation
MaxLen     == 3   \* bytes of a std::string given to new_string
MaxRtObj   == 4   \* qjs::Runtime objects a behaviour may construct

Val == 1..NumVals
Hnd == 1..MaxHandles

VARIABLES
    eng,        \* engine heap: rc[v], and the number of dup / free calls per value
    ext,        \* ext[v]: references to v the engine holds besides the handles
    made,       \* made[v]: v has been produced by the engine
    hstate,     \* hstate[h]: "unborn", "live" or "dead"
    hval,       \* hval[h]: the m_value of handle h (0 while unborn)
    copies,     \* copies[v]: copy-constructions performed from a handle of v
    assigned,   \* assigned[v]: some operator= read or overwrote a handle of v
    nAssign     \* operator= executions so far

handleVars == <<eng, ext, made, hstate, hval, copies, assigned, nAssign>>

(* Property access on one receiver object (the m_value of the Value the    *)
(* operations are called on).                                              *)
VARIABLES
    recv,       \* the receiver: kind, named properties, indexed properties, extensible
    last        \* the last property operation and what it returned

propVars == <<recv, last>>

(* The Result protocol: one context's pending exception and the outcome of *)
(* the last Context operation.                                             *)
VARIABLES
    pending,    \* the context's pending exception ("null": none)
    res,        \* the last operation, its argument and what it returned
    chain       \* what followed the last failed to_int32: the fetches and their results

convVars == <<pending, res, chain>>

(* The closure bridge: threads, runtimes, contexts, the carrier class and   *)
(* the registered closures.                                                *)
VARIABLES
    cls,        \* closure_class per thread, the engine's id allocator, the classes
                \* registered per runtime, and per thread: constructions, registrations
    rtThread,   \* rtThread[r]: the thread that created and drives runtime r (0: none)
    ctxs,       \* engine contexts: runtime, reference count, live qjs::Context wrappers
    fns,        \* function values returned by new_c_function
    car,        \* carrier objects: reference count, class id, opaque pointer
    cells,      \* closure objects: the caller's original and the heap copy
    lastCall,   \* the last script-side invocation and what the trampoline ran
    crashed     \* undefined behaviour ended the process

bridgeVars == <<cls, rtThread, ctxs, fns, car, cells, lastCall, crashed>>

(* Strings: the last new_string / to_std_string round trip.                *)
VARIABLES
    text        \* the bytes given, the engine string made of them, the bytes
                \* returned, and the C-string views acquired and released

strVars == <<text>>

(* Runtime ownership: qjs::Runtime objects over engine runtime instances.  *)
VARIABLES
    robj,       \* qjs::Runtime objects: state, m_ref.m_runtime, moved-from
    rinst,      \* engine runtime instances: created, JS_FreeRuntime calls
    rub         \* JS_FreeRuntime was called on a freed instance

rtVars == <<robj, rinst, rub>>

(* References that handles lend to the engine: property writes and calls.  *)
VARIABLES
    slots,      \* the receiver of set_property: the engine value each of its
                \* two properties holds (0: none), and whether it is extensible
    ocall       \* the last call / invoke: the arguments given, what the
                \* engine received, and the Handle returned

ownVars == <<slots, ocall>>

vars == <<handleVars, propVars, convVars, bridgeVars, strVars, rtVars, ownVars>>

notHandle == <<propVars, convVars, bridgeVars, strVars, rtVars, ownVars>>
notProp == <<handleVars, convVars, bridgeVars, strVars, rtVars, ownVars>>
notConv == <<handleVars, propVars, bridgeVars, strVars, rtVars, ownVars>>
notBridge == <<handleVars, propVars, convVars, strVars, rtVars, ownVars>>
notStr == <<handleVars, propVars, convVars, bridgeVars, rtVars, ownVars>>
notRt == <<handleVars, propVars, convVars, bridgeVars, strVars, ownVars>>
notOwn == <<propVars, convVars, bridgeVars, strVars, rtVars>>

(***************************************************************************)
(* Engine primitives on the reference counts                               *)
(***************************************************************************)
JS_DupValue(e, v) ==
    [e EXCEPT !.rc[v] = @ + 1, !.dups[v] = @ + 1]

JS_FreeValue(e, v) ==
    [e EXCEPT !.rc[v] = @ - 1, !.frees[v] = @ + 1]

(***************************************************************************)
(* qjs::Value                                                              *)
(***************************************************************************)
\* Value(JSValue&& value, JSContext*): takes the reference over, no dup.
Value_own(e, v) == [value |-> v, eng |-> e]

Value_copy_NoDup(e, src) == [value |-> src, eng |-> e]

\* Value(const Value& val): m_value(JS_DupValue(m_context, val.m_value))
Value_copy(e, src) == [value |-> src, eng |-> JS_DupValue(e, src)]

\* ~Value(): JS_FreeValue(m_context, m_value)
Value_dtor(e, v) == JS_FreeValue(e, v)

\* operator=(const Value& value): m_value = JS_DupValue(m_context, value.m_value);
\* the value held before is overwritten without a JS_FreeValue.
Value_assign(e, old, src) == [value |-> src, eng |-> JS_DupValue(e, src)]

LiveOn(v) == {h \in Hnd : hstate[h] = "live" /\ hval[h] = v}

\* Value objects and engine values are numbered in the order in which a
\* behaviour constructs them
NextHandle(h) == \A q \in Hnd : q < h => hstate[q] # "unborn"

NextValue(v) == \A w \in Val : w < v => made[w]

InitHandle ==
    /\ eng = [rc |-> [v \in Val |-> 0], dups |-> [v \in Val |-> 0],
              frees |-> [v \in Val |-> 0]]
    /\ ext = [v \in Val |-> 0]
    /\ made = [v \in Val |-> FALSE]
    /\ hstate = [h \in Hnd |-> "unborn"]
    /\ hval = [h \in Hnd |-> 0]
    /\ copies = [v \in Val |-> 0]
    /\ assigned = [v \in Val |-> FALSE]
    /\ nAssign = 0

\* A Context factory (new_object, new_int32, ...) produces a fresh engine value
\* and wraps it: the handle owns the one reference the engine handed out.
NewValue(h, v, x) ==
    /\ hstate[h] = "unborn" /\ NextHandle(h)
    /\ ~made[v] /\ NextValue(v)
    /\ LET r == Value_own([eng EXCEPT !.rc[v] = 1 + x], v) IN
        /\ eng' = r.eng
        /\ hval' = [hval EXCEPT ![h] = r.value]
    /\ ext' = [ext EXCEPT ![v] = x]
    /\ made' = [made EXCEPT ![v] = TRUE]
    /\ hstate' = [hstate EXCEPT ![h] = "live"]
    /\ UNCHANGED <<copies, assigned, nAssign>>
    /\ UNCHANGED notHandle

CopyConstruct(h, src) ==
    /\ hstate[h] = "unborn" /\ NextHandle(h)
    /\ hstate[src] = "live"
    /\ LET r == Value_copy(eng, hval[src]) IN
        /\ eng' = r.eng
        /\ hval' = [hval EXCEPT ![h] = r.value]
    /\ hstate' = [hstate EXCEPT ![h] = "live"]
    /\ copies' = [copies EXCEPT ![hval[src]] = @ + 1]
    /\ UNCHANGED <<ext, made, assigned, nAssign>>
    /\ UNCHANGED notHandle

\* a = b, with a = a included
Assign(a, b) ==
    /\ hstate[a] = "live"
    /\ hstate[b] = "live"
    /\ nAssign < MaxAssign
    /\ LET r == Value_assign(eng, hval[a], hval[b]) IN
        /\ eng' = r.eng
        /\ hval' = [hval EXCEPT ![a] = r.value]
    /\ assigned' = [assigned EXCEPT ![hval[a]] = TRUE, ![hval[b]] = TRUE]
    /\ nAssign' = nAssign + 1
    /\ UNCHANGED <<ext, made, hstate, copies>>
    /\ UNCHANGED notHandle

Destroy(h) ==
    /\ hstate[h] = "live"
    /\ eng' = Value_dtor(eng, hval[h])
    /\ hstate' = [hstate EXCEPT ![h] = "dead"]
    /\ UNCHANGED <<ext, made, hval, copies, assigned, nAssign>>
    /\ UNCHANGED notHandle

(***************************************************************************)
(* Property values and the receiver object                                 *)
(***************************************************************************)
Idx   == 0..MaxIdx
Names == {"length", "x"}

Num(n)    == [t |-> "num", n |-> n]
Str       == [t |-> "str", n |-> 0]
Absent    == [t |-> "absent", n |-> 0]
Undefined == [t |-> "undefined", n |-> 0]

\* what a caller's Handle may hold when it is stored as a property: any
\* number up to MaxIdx + 1 or a string for "length"; the smallest and the
\* largest number or a string elsewhere
PVal == {Num(n) : n \in 0..(MaxIdx + 1)} \cup {Str}
EVal == {Num(0), Num(MaxIdx + 1), Str}

\* std::optional<Value>
None    == [some |-> FALSE, val |-> Undefined]
Some(v) == [some |-> TRUE, val |-> v]

Kinds == {"object", "array", "bare"}

\* new_object() / new_array() / new_object_proto(null): an empty extensible
\* object; an array has its own numeric length from the start.
FreshObject(kind) ==
    [kind |-> kind,
     named |-> [p \in Names |->
                  IF kind = "array" /\ p = "length" THEN Num(0) ELSE Absent],
     elems |-> [i \in Idx |-> Absent],
     extensible |-> TRUE]

(***************************************************************************)
(* Engine primitives on objects                                            *)
(***************************************************************************)
JS_HasProperty(o, prop) == o.named[prop].t # "absent"

JS_GetPropertyStr(o, prop) ==
    IF o.named[prop].t # "absent" THEN o.named[prop] ELSE Undefined

JS_GetPropertyUint32(o, idx) ==
    IF idx \in Idx /\ o.elems[idx].t # "absent" THEN o.elems[idx] ELSE Undefined

JS_IsExtensible(o) == o.extensible

JS_PreventExtensions(o) == [o EXCEPT !.extensible = FALSE]

\* ToUint32 of an OBJECT (ToPrimitive, then ToNumber of the string): a plain
\* object gives "[object Object]", NaN, 0; an array gives its join(","): ""
\* for length 0, the single element for length 1, a string with commas (NaN)
\* beyond; an object without a prototype has no toString and the coercion
\* throws (the primitive returns -1 and leaves *pres unwritten).
JS_ToUint32(o) ==
    CASE o.kind = "bare"   -> [ok |-> FALSE, val |-> 0]
      [] o.kind = "object" -> [ok |-> TRUE, val |-> 0]
      [] o.kind = "array"  ->
            [ok |-> TRUE,
             val |-> IF o.named["length"].n = 1 /\ o.elems[0].t = "num"
                     THEN o.elems[0].n ELSE 0]

\* The engine's write: an existing property is overwritten, a new one is added
\* only to an extensible object; an array's length is written as a number
\* (dropping the elements beyond it) or not at all.
JS_SetPropertyStr(o, prop, val) ==
    IF o.kind = "array" /\ prop = "length"
    THEN IF val.t = "num"
         THEN [o EXCEPT !.named["length"] = val,
                        !.elems = [i \in Idx |-> IF i < val.n THEN @[i] ELSE Absent]]
         ELSE o
    ELSE IF o.named[prop].t # "absent" \/ o.extensible
         THEN [o EXCEPT !.named[prop] = val]
         ELSE o

JS_SetPropertyUint32(o, idx, val) ==
    IF o.elems[idx].t # "absent" \/ o.extensible
    THEN [o EXCEPT !.elems[idx] = val,
                   !.named["length"] =
                       IF o.kind = "array" /\ @.n < idx + 1 THEN Num(idx + 1) ELSE @]
    ELSE o

(***************************************************************************)
(* qjs::Value property operations                                          *)
(***************************************************************************)
has_property(o, prop) == JS_HasProperty(o, prop)

is_extensible(o) == JS_IsExtensible(o)

prevent_extensions(o) == JS_PreventExtensions(o)

get_property_str(o, prop) ==
    IF ~has_property(o, prop) THEN None
    ELSE Some(JS_GetPropertyStr(o, prop))

\* get_property(uint32_t idx).  len is the ToUint32 of m_value, the receiver
\* itself; when that coercion fails len is never written and the comparison
\* reads an indeterminate value, undet.
get_property_idx(o, idx, undet) ==
    IF ~has_property(o, "length") THEN None
    ELSE LET length == get_property_str(o, "length")
             conv   == JS_ToUint32(o)
             len    == IF conv.ok THEN conv.val ELSE undet
         IN  IF length.some /\ idx >= len THEN None
             ELSE Some(JS_GetPropertyUint32(o, idx))

set_property_str_Unchecked(o, prop, val) ==
    [ret |-> TRUE, obj |-> JS_SetPropertyStr(o, prop, val)]

set_property_str(o, prop, val) ==
    IF ~is_extensible(o) THEN [ret |-> FALSE, obj |-> o]
    ELSE [ret |-> TRUE, obj |-> JS_SetPropertyStr(o, prop, val)]

set_property_idx(o, idx, val) ==
    IF ~is_extensible(o) THEN [ret |-> FALSE, obj |-> o]
    ELSE [ret |-> TRUE, obj |-> JS_SetPropertyUint32(o, idx, val)]

\* took: after a set_property, whether the property now reads as the value
\* that was written
Op(op, idx, name, some, ret) ==
    [op |-> op, idx |-> idx, name |-> name, some |-> some, ret |-> ret,
     took |-> FALSE]

InitProp ==
    /\ recv = FreshObject("object")
    /\ last = Op("new", 0, "", FALSE, FALSE)

NewReceiver(kind) ==
    /\ recv' = FreshObject(kind)
    /\ last' = Op("new", 0, "", FALSE, FALSE)
    /\ UNCHANGED notProp

SetPropertyStr(prop, val) ==
    /\ LET r == set_property_str(recv, prop, val) IN
        /\ recv' = r.obj
        /\ last' = [Op("set_str", 0, prop, FALSE, r.ret) EXCEPT
                       !.took = (get_property_str(r.obj, prop) = Some(val))]
    /\ UNCHANGED notProp

SetPropertyIdx(idx, val) ==
    /\ LET r == set_property_idx(recv, idx, val) IN
        /\ recv' = r.obj
        /\ last' = [Op("set_idx", idx, "", FALSE, r.ret) EXCEPT
                       !.took = (JS_GetPropertyUint32(r.obj, idx) = val)]
    /\ UNCHANGED notProp

GetPropertyStr(prop) ==
    /\ last' = Op("get_str", 0, prop, get_property_str(recv, prop).some, FALSE)
    /\ UNCHANGED recv
    /\ UNCHANGED notProp

GetPropertyIdx(idx) ==
    /\ \E undet \in (IF JS_ToUint32(recv).ok THEN {0} ELSE 0..(MaxIdx + 2)) :
          last' = Op("get_idx", idx, "", get_property_idx(recv, idx, undet).some, FALSE)
    /\ UNCHANGED recv
    /\ UNCHANGED notProp

PreventExtensions ==
    /\ recv' = prevent_extensions(recv)
    /\ last' = Op("prevent", 0, "", FALSE, FALSE)
    /\ UNCHANGED notProp

NextProp ==
    \/ \E kind \in Kinds : NewReceiver(kind)
    \/ \E val \in PVal : SetPropertyStr("length", val)
    \/ \E val \in EVal : SetPropertyStr("x", val)
    \/ \E idx \in Idx, val \in EVal : SetPropertyIdx(idx, val)
    \/ \E prop \in Names : GetPropertyStr(prop)
    \/ \E idx \in 0..(MaxIdx + 1) : GetPropertyIdx(idx)
    \/ PreventExtensions

(***************************************************************************)
(* Values handed to the conversions, and the engine's coercions.  Each     *)
(* coercion returns its status (-1: failure), the converted number and the *)
(* pending exception it leaves: a value of a type it cannot convert makes  *)
(* it throw (the error becomes the pending exception); the exception       *)
(* marker (the handle eval/call return after a throw) makes it fail        *)
(* without throwing anything new.                                          *)
(***************************************************************************)
Int32(n)    == [k |-> "int", n |-> n]
BigInt(n) == [k |-> "bigint", n |-> n]
Symbol    == [k |-> "symbol", n |-> 0]
Marker    == [k |-> "marker", n |-> 0]
NoValue   == [k |-> "none", n |-> 0]

CVals == {Int32(0), Int32(2), BigInt(0), BigInt(3), Symbol, Marker}

Errors == {"TypeError", "SyntaxError", "Error"}

CoerceOk(p, n) == [result |-> 0, out |-> n, pending |-> p]

CoerceFail(p, v) ==
    [result |-> -1, out |-> 0,
     pending |-> IF v.k = "marker" THEN p ELSE "TypeError"]

JS_ToBool(p, v) ==
    IF v.k = "marker" THEN CoerceFail(p, v)
    ELSE [result |-> IF v.k \in {"int", "bigint"} /\ v.n = 0 THEN 0 ELSE 1,
          out |-> 0, pending |-> p]

JS_ToInt32(p, v) == IF v.k = "int" THEN CoerceOk(p, v.n) ELSE CoerceFail(p, v)

JS_ToUint32v(p, v) == IF v.k = "int" THEN CoerceOk(p, v.n) ELSE CoerceFail(p, v)

JS_ToInt64(p, v) == IF v.k = "int" THEN CoerceOk(p, v.n) ELSE CoerceFail(p, v)

JS_ToIndex(p, v) == IF v.k = "int" THEN CoerceOk(p, v.n) ELSE CoerceFail(p, v)

JS_ToFloat64(p, v) == IF v.k = "int" THEN CoerceOk(p, v.n) ELSE CoerceFail(p, v)

JS_ToBigInt64(p, v) == IF v.k = "bigint" THEN CoerceOk(p, v.n) ELSE CoerceFail(p, v)

JS_ToInt64Ext(p, v) ==
    IF v.k \in {"int", "bigint"} THEN CoerceOk(p, v.n) ELSE CoerceFail(p, v)

\* returns the pending exception and resets it
JS_GetException(p) == [val |-> p, pending |-> "null"]

\* source text: "1+1" evaluates to 2, "{" does not parse, "throw 1" throws
Sources == {"1+1", "{", "throw 1"}

JS_Eval(p, src) ==
    CASE src = "1+1"     -> [value |-> Int32(2), pending |-> p]
      [] src = "{"       -> [value |-> Marker, pending |-> "SyntaxError"]
      [] src = "throw 1" -> [value |-> Marker, pending |-> "Error"]

\* the callee: a function that returns, one that throws, a value that is
\* not callable
Callees == {"returns", "throws", "not callable"}

JS_Call(p, fn) ==
    CASE fn = "returns"      -> [value |-> Int32(2), pending |-> p]
      [] fn = "throws"       -> [value |-> Marker, pending |-> "Error"]
      [] fn = "not callable" -> [value |-> Marker, pending |-> "TypeError"]

JS_Invoke(p, fn) == JS_Call(p, fn)

(***************************************************************************)
(* qjs::Context: the pending-exception fetch, the scalar conversions       *)
(* (Result<T>: the value case or the Exception case) and eval; qjs::Value: *)
(* call and invoke.  Each returns what the caller gets and the pending     *)
(* exception it leaves.                                                    *)
(***************************************************************************)
get_exception(p) ==
    LET e == JS_GetException(p) IN [exc |-> e.val, pending |-> e.pending]

ResultValue(n, p) == [case |-> "value", num |-> n, exc |-> "null", pending |-> p]

ResultException(e) ==
    [case |-> "exception", num |-> 0, exc |-> e.exc, pending |-> e.pending]

\* Result<bool>: true is 1, false is 0
to_bool(p, v) ==
    LET r == JS_ToBool(p, v) IN
    IF r.result = -1 THEN ResultException(get_exception(r.pending))
    ELSE ResultValue(IF r.result # 0 THEN 1 ELSE 0, r.pending)

to_int32_Peek(p, v) ==
    LET r == JS_ToInt32(p, v) IN
    IF r.result = -1
    THEN [case |-> "exception", num |-> 0, exc |-> r.pending, pending |-> r.pending]
    ELSE ResultValue(r.out, r.pending)

to_int32(p, v) ==
    LET r == JS_ToInt32(p, v) IN
    IF r.result = -1 THEN ResultException(get_exception(r.pending))
    ELSE ResultValue(r.out, r.pending)

to_uint32(p, v) ==
    LET r == JS_ToUint32v(p, v) IN
    IF r.result = -1 THEN ResultException(get_exception(r.pending))
    ELSE ResultValue(r.out, r.pending)

to_int64_Unchecked(p, v) ==
    LET r == JS_ToInt64(p, v) IN ResultValue(r.out, r.pending)

to_int64(p, v) ==
    LET r == JS_ToInt64(p, v) IN
    IF r.result = -1 THEN ResultException(get_exception(r.pending))
    ELSE ResultValue(r.out, r.pending)

to_index(p, v) ==
    LET r == JS_ToIndex(p, v) IN
    IF r.result = -1 THEN ResultException(get_exception(r.pending))
    ELSE ResultValue(r.out, r.pending)

to_float64(p, v) ==
    LET r == JS_ToFloat64(p, v) IN
    IF r.result = -1 THEN ResultException(get_exception(r.pending))
    ELSE ResultValue(r.out, r.pending)

to_bigint64(p, v) ==
    LET r == JS_ToBigInt64(p, v) IN
    IF r.result = -1 THEN ResultException(get_exception(r.pending))
    ELSE ResultValue(r.out, r.pending)

to_int64_ext(p, v) ==
    LET r == JS_ToInt64Ext(p, v) IN
    IF r.result = -1 THEN ResultException(get_exception(r.pending))
    ELSE ResultValue(r.out, r.pending)

eval_Surfacing(p, src) ==
    LET r == JS_Eval(p, src) IN
    IF r.value = Marker
    THEN [value |-> r.value, pending |-> get_exception(r.pending).pending]
    ELSE [value |-> r.value, pending |-> r.pending]

\* eval: Value(std::move(value), m_context) of what JS_Eval returned
eval(p, src) ==
    LET r == JS_Eval(p, src) IN [value |-> r.value, pending |-> r.pending]

call(p, fn) ==
    LET r == JS_Call(p, fn) IN [value |-> r.value, pending |-> r.pending]

invoke(p, fn) ==
    LET r == JS_Invoke(p, fn) IN [value |-> r.value, pending |-> r.pending]

Conversions ==
    {"to_bool", "to_int32", "to_uint32", "to_int64", "to_index", "to_float64",
     "to_bigint64", "to_int64_ext"}

\* the engine coercion a conversion rests on
Coercion(c, p, v) ==
    CASE c = "to_bool"      -> JS_ToBool(p, v)
      [] c = "to_int32"     -> JS_ToInt32(p, v)
      [] c = "to_uint32"    -> JS_ToUint32v(p, v)
      [] c = "to_int64"     -> JS_ToInt64(p, v)
      [] c = "to_index"     -> JS_ToIndex(p, v)
      [] c = "to_float64"   -> JS_ToFloat64(p, v)
      [] c = "to_bigint64"  -> JS_ToBigInt64(p, v)
      [] c = "to_int64_ext" -> JS_ToInt64Ext(p, v)

Conversion(c, p, v) ==
    CASE c = "to_bool"      -> to_bool(p, v)
      [] c = "to_int32"     -> to_int32(p, v)
      [] c = "to_uint32"    -> to_uint32(p, v)
      [] c = "to_int64"     -> to_int64(p, v)
      [] c = "to_index"     -> to_index(p, v)
      [] c = "to_float64"   -> to_float64(p, v)
      [] c = "to_bigint64"  -> to_bigint64(p, v)
      [] c = "to_int64_ext" -> to_int64_ext(p, v)

Outcome(op, arg, case, num, exc, ret) ==
    [op |-> op, arg |-> arg, case |-> case, num |-> num, exc |-> exc, ret |-> ret]

NoChain == [stage |-> 0, case |-> "none", carried |-> "null", f1 |-> "null", f2 |-> "null"]

InitConv ==
    /\ pending = "null"
    /\ res = Outcome("none", NoValue, "none", 0, "null", NoValue)
    /\ chain = NoChain

Convert(c, v) ==
    /\ LET r == Conversion(c, pending, v) IN
        /\ pending' = r.pending
        /\ res' = Outcome(c, v, r.case, r.num, r.exc, NoValue)
        /\ chain' = IF c = "to_int32" /\ v.k \in {"symbol", "bigint"}
                    THEN [NoChain EXCEPT !.stage = 1, !.case = r.case, !.carried = r.exc]
                    ELSE NoChain
    /\ UNCHANGED notConv

GetException ==
    /\ LET e == get_exception(pending) IN
        /\ pending' = e.pending
        /\ res' = Outcome("get_exception", NoValue, "exception", 0, e.exc, NoValue)
        /\ chain' = CASE chain.stage = 1 -> [chain EXCEPT !.stage = 2, !.f1 = e.exc]
                      [] chain.stage = 2 -> [chain EXCEPT !.stage = 3, !.f2 = e.exc]
                      [] OTHER -> NoChain
    /\ UNCHANGED notConv

Eval(src) ==
    /\ LET r == eval(pending, src) IN
        /\ pending' = r.pending
        /\ res' = Outcome("eval", [k |-> src, n |-> 0], "handle", 0, "null", r.value)
    /\ chain' = NoChain
    /\ UNCHANGED notConv

Call(fn) ==
    /\ LET r == call(pending, fn) IN
        /\ pending' = r.pending
        /\ res' = Outcome("call", [k |-> fn, n |-> 0], "handle", 0, "null", r.value)
    /\ chain' = NoChain
    /\ UNCHANGED notConv

Invoke(fn) ==
    /\ LET r == invoke(pending, fn) IN
        /\ pending' = r.pending
        /\ res' = Outcome("invoke", [k |-> fn, n |-> 0], "handle", 0, "null", r.value)
    /\ chain' = NoChain
    /\ UNCHANGED notConv

NextConv ==
    \/ \E c \in Conversions, v \in CVals : Convert(c, v)
    \/ GetException
    \/ \E src \in Sources : Eval(src)
    \/ \E fn \in Callees : Call(fn)
    \/ \E fn \in Callees : Invoke(fn)

(***************************************************************************)
(* The closure bridge.  A runtime is driven by the thread that created it  *)
(* (the engine is not synchronised and the binding adds nothing): every    *)
(* operation on a context runs on the thread of the context's runtime.     *)
(***************************************************************************)
Thread   == 1..NumThreads
Runtime  == 1..NumRuntimes
ECtx     == 1..MaxCtx
Fn       == 1..MaxFn
ThisVals == {"global", "obj"}
\* the argument lists of an invocation: n distinct values, the i-th being i
ArgLists == {[i \in 1..n |-> i] : n \in 0..MaxArgs}
Magics   == {0, 7}

\* the first id JS_NewClassID hands out (0 means: no id yet)
FirstClassId == 1

\* a count that stops at 2: none, one, more than one
Sat(n) == IF n < 2 THEN n + 1 ELSE 2

\* static thread_local Class_Id closure_class: one per thread
Slot(t) == t

(***************************************************************************)
(* Engine primitives of the class registry and of carrier objects          *)
(***************************************************************************)
JS_NewClassID(c, slot) ==
    IF c.id[slot] = 0
    THEN [c EXCEPT !.id[slot] = c.alloc, !.alloc = c.alloc + 1]
    ELSE c

JS_NewClass(c, r, id) == [c EXCEPT !.reg[r] = @ \cup {id}]

JS_NewObjectClass(id) == [rc |-> 1, class |-> id, opaque |-> "null"]

JS_SetOpaque(c, ptr) == [c EXCEPT !.opaque = ptr]

\* the opaque pointer of an object of class id, NULL for any other object
JS_GetOpaque(c, id) == IF c.class = id THEN c.opaque ELSE "null"

\* the function object keeps its own reference to each data value
JS_NewCFunctionData(c, e, magic, data0) ==
    [fn  |-> [state |-> "live", ctx |-> e, refs |-> 1, magic |-> magic,
              data0 |-> data0, gc |-> FALSE],
     car |-> [c EXCEPT !.rc = @ + 1]]

(***************************************************************************)
(* qjs::Context                                                            *)
(***************************************************************************)
Context_ctor_Always(c, t, r) ==
    LET b  == [c EXCEPT !.built[t] = Sat(@)]
        c1 == JS_NewClassID(b, Slot(t))
        c2 == JS_NewClass(c1, r, c1.id[Slot(t)])
    IN  [c2 EXCEPT !.regCount[t] = Sat(@),
                   !.regAt[t] = IF @ = 0 THEN b.built[t] ELSE @]

\* Context(JSContext* ctx) on thread t, ctx a context of runtime r:
\* if (!closure_class) { JS_NewClassID(&closure_class); ... JS_NewClass(...); }
Context_ctor(c, t, r) ==
    LET b == [c EXCEPT !.built[t] = Sat(@)] IN
    IF b.id[Slot(t)] = 0
    THEN LET c1 == JS_NewClassID(b, Slot(t))
             c2 == JS_NewClass(c1, r, c1.id[Slot(t)])
         IN  [c2 EXCEPT !.regCount[t] = Sat(@),
                        !.regAt[t] = IF @ = 0 THEN b.built[t] ELSE @]
    ELSE b

\* the finalizer registered with the class: delete the Function the opaque
\* pointer of the carrier refers to
closure_finalizer(cell, carrier, id) ==
    LET opaque == JS_GetOpaque(carrier, id) IN
    IF opaque = "heap"
    THEN [cell EXCEPT !.deletes = @ + 1, !.heapLive = FALSE]
    ELSE cell

\* new_c_function: the closure is copied to the heap, a carrier of class id
\* holds the copy in its opaque slot, and the function value is created with
\* the carrier as its one data value.  The local JSValue data is not freed.
new_c_function(f, e, id, magic) ==
    LET fn_   == [closure |-> f, origLive |-> TRUE, heapLive |-> TRUE, deletes |-> 0]
        data  == JS_SetOpaque(JS_NewObjectClass(id), "heap")
        value == JS_NewCFunctionData(data, e, magic, f)
    IN  [fn |-> value.fn, car |-> value.car, cell |-> fn_]

NoRun == [crash |-> TRUE, ran |-> <<>>, this |-> "global", args |-> <<>>, magic |-> 0,
          log |-> <<>>]

\* One reference event of the trampoline.  obj names the referent: CtxRef
\* the engine context, ThisRef the this value, i >= 1 the i-th argument,
\* ResRef the value the closure returned.
Ev(op, obj) == [op |-> op, obj |-> obj]
CtxRef  == -1
ThisRef == 0
ResRef  == -2

\* copies of the elements 1..n of the vector into its new storage, then
\* destruction of the old ones
RECURSIVE CopyAll(_, _)
CopyAll(n, op) == IF n = 0 THEN <<>> ELSE CopyAll(n - 1, op) \o <<Ev(op, n)>>

\* argv_.push_back(Value(JS_DupValue(ctx, argv[i]), ctx)) for i = 1..argc.
\* The temporary owns the dup; Value has no move constructor, so push_back
\* copy-constructs the element (a dup) and the temporary is destroyed (a
\* free).  When the vector is full it first moves to storage of twice the
\* size: every element is copy-constructed there and the old one destroyed.
RECURSIVE PushArgs(_, _, _)
PushArgs(i, argc, cap) ==
    IF i > argc THEN <<>>
    ELSE LET full   == (i - 1 = cap)
             newcap == IF ~full THEN cap ELSE IF cap = 0 THEN 1 ELSE 2 * cap
         IN  <<Ev("dup", i), Ev("dup", i)>>
             \o (IF full THEN CopyAll(i - 1, "dup") \o CopyAll(i - 1, "free") ELSE <<>>)
             \o <<Ev("free", i)>>
             \o PushArgs(i + 1, argc, newcap)

trampoline_refs_Steal(argc) ==
    <<Ev("dup", CtxRef)>>
    \o PushArgs(1, argc, 0)
    \o <<Ev("own", ResRef), Ev("dup", ResRef), Ev("free", ResRef)>>
    \o CopyAll(argc, "free")
    \o <<Ev("free", ThisRef), Ev("free", CtxRef)>>

\* the references the trampoline takes and gives back, in order: ctx_,
\* this_val_ and argv_ are built, the closure runs and its result is owned by
\* the Handle value, the return value is a dup of it, and the locals are
\* destroyed in reverse order of their declaration
trampoline_refs(argc) ==
    <<Ev("dup", CtxRef), Ev("dup", ThisRef)>>
    \o PushArgs(1, argc, 0)
    \o <<Ev("own", ResRef), Ev("dup", ResRef), Ev("free", ResRef)>>
    \o CopyAll(argc, "free")
    \o <<Ev("free", ThisRef), Ev("free", CtxRef)>>

\* the closure a pointer to cell c runs: the cell's own while the cell is
\* alive, anything (undet: a closure, or 0 for a crash) once it is gone
Deref(cs, c, ptr, undet) ==
    IF (ptr = "heap" /\ cs[c].heapLive) \/ (ptr = "orig" /\ cs[c].origLive)
    THEN cs[c].closure ELSE undet

trampoline_SharedData(cr, cs, data0, this, argc, argv, magic, id, undet) ==
    LET argv_  == [i \in 1..argc |-> argv[i]]
        opaque == JS_GetOpaque(cr[1], id)
        fn     == IF opaque = "null" THEN 0 ELSE Deref(cs, 1, opaque, undet)
    IN  IF fn = 0 THEN NoRun
        ELSE [crash |-> FALSE, ran |-> <<fn>>, this |-> this, args |-> argv_,
              magic |-> magic, log |-> trampoline_refs(argc)]

\* the trampoline: this_val_ and argv_ are built from the raw values in
\* order, the closure is read from the opaque slot of data[0] and called once
trampoline(cr, cs, data0, this, argc, argv, magic, id, undet) ==
    LET argv_  == [i \in 1..argc |-> argv[i]]
        opaque == JS_GetOpaque(cr[data0], id)
        fn     == IF opaque = "null" THEN 0 ELSE Deref(cs, data0, opaque, undet)
    IN  IF fn = 0 THEN NoRun
        ELSE [crash |-> FALSE, ran |-> <<fn>>, this |-> this, args |-> argv_,
              magic |-> magic, log |-> trampoline_refs(argc)]

NoFn   == [state |-> "none", ctx |-> 0, refs |-> 0, magic |-> 0, data0 |-> 0, gc |-> FALSE]
NoCar  == [rc |-> 0, class |-> 0, opaque |-> "null"]
NoCell == [closure |-> 0, origLive |-> FALSE, heapLive |-> FALSE, deletes |-> 0]
NoCtx  == [rt |-> 0, rc |-> 0, wraps |-> 0]
NoCall == [fn |-> 0, inThis |-> "global", inArgs |-> <<>>, ran |-> <<>>,
           this |-> "global", args |-> <<>>, magic |-> 0, log |-> <<>>]

ThreadOf(e) == rtThread[ctxs[e].rt]

InitBridge ==
    /\ cls = [id |-> [t \in Thread |-> 0], alloc |-> FirstClassId,
              reg |-> [r \in Runtime |-> {}],
              built |-> [t \in Thread |-> 0],
              regCount |-> [t \in Thread |-> 0],
              regAt |-> [t \in Thread |-> 0]]
    /\ rtThread = [r \in Runtime |-> 0]
    /\ ctxs = [e \in ECtx |-> NoCtx]
    /\ fns = [f \in Fn |-> NoFn]
    /\ car = [f \in Fn |-> NoCar]
    /\ cells = [f \in Fn |-> NoCell]
    /\ lastCall = NoCall
    /\ crashed = FALSE

\* Runtime::Runtime() on thread t
NewRuntime(t, r) ==
    /\ ~crashed
    /\ rtThread[r] = 0
    /\ \A q \in Runtime : q < r => rtThread[q] # 0
    /\ rtThread' = [rtThread EXCEPT ![r] = t]
    /\ UNCHANGED <<cls, ctxs, fns, car, cells, lastCall, crashed>>
    /\ UNCHANGED notBridge

\* Context(Runtime_Ref&): Context(JS_NewContext(runtime.m_runtime))
NewContext(e, r) ==
    /\ ~crashed
    /\ rtThread[r] # 0
    /\ ctxs[e].rt = 0
    /\ \A q \in ECtx : q < e => ctxs[q].rt # 0
    /\ ctxs' = [ctxs EXCEPT ![e] = [rt |-> r, rc |-> 1, wraps |-> 1]]
    /\ cls' = Context_ctor(cls, rtThread[r], r)
    /\ UNCHANGED <<rtThread, fns, car, cells, lastCall, crashed>>
    /\ UNCHANGED notBridge

\* Context(const Context& ctx): Context(JS_DupContext(ctx.m_context))
CopyContext(e) ==
    /\ ~crashed
    /\ ctxs[e].wraps >= 1
    /\ ctxs[e].wraps < MaxWrap
    /\ ctxs' = [ctxs EXCEPT ![e].rc = @ + 1, ![e].wraps = @ + 1]
    /\ cls' = Context_ctor(cls, ThreadOf(e), ctxs[e].rt)
    /\ UNCHANGED <<rtThread, fns, car, cells, lastCall, crashed>>
    /\ UNCHANGED notBridge

\* ~Context(): JS_FreeContext(m_context).  A Context outlives the handles
\* created from it: the last one goes only when no function value is left.
DestroyContext(e) ==
    /\ ~crashed
    /\ ctxs[e].wraps >= 1
    /\ ctxs[e].wraps = 1 => \A f \in Fn : ~(fns[f].state = "live" /\ fns[f].ctx = e)
    /\ IF ctxs[e].rc = 0
       THEN \* JS_FreeContext of a context the engine has freed already
            /\ crashed' = TRUE
            /\ ctxs' = [ctxs EXCEPT ![e].wraps = @ - 1]
       ELSE /\ ctxs' = [ctxs EXCEPT ![e].rc = @ - 1, ![e].wraps = @ - 1]
            /\ UNCHANGED crashed
    /\ UNCHANGED <<cls, rtThread, fns, car, cells, lastCall>>
    /\ UNCHANGED notBridge

\* a = b on two Context objects, a on engine context ea and b on eb.  The
\* class declares a copy constructor and a destructor but no operator=, so
\* the compiler's memberwise one runs: a.m_context = b.m_context, without a
\* JS_DupContext of eb and without a JS_FreeContext of ea.
AssignContext(ea, eb) ==
    /\ ~crashed
    /\ ctxs[ea].wraps >= 1 /\ ctxs[eb].wraps >= 1
    /\ ctxs[ea].rt = ctxs[eb].rt
    /\ ea # eb => ctxs[eb].wraps < MaxWrap
    /\ ctxs' = IF ea = eb THEN ctxs
               ELSE [ctxs EXCEPT ![ea].wraps = @ - 1, ![eb].wraps = @ + 1]
    /\ UNCHANGED <<cls, rtThread, fns, car, cells, lastCall, crashed>>
    /\ UNCHANGED notBridge

\* f = ctx.new_c_function(Function(...), name, length, magic) on a live
\* Context of e: the closure passed in is a temporary of the calling
\* statement and is gone when the statement ends; the function value and the
\* heap copy remain.  JS_NewObjectClass with a class id
\* that was never registered in the context's runtime reads past the
\* runtime's class tables: the process crashes, or goes on with a carrier
\* whose class the runtime does not know.
NewCFunction(e, f, magic, outcome) ==
    /\ ~crashed
    /\ ctxs[e].wraps >= 1
    /\ fns[f].state = "none"
    /\ \A q \in Fn : q < f => fns[q].state # "none"
    /\ LET id == cls.id[Slot(ThreadOf(e))] IN
        /\ (outcome = "crash") => id \notin cls.reg[ctxs[e].rt]
        /\ IF outcome = "crash"
           THEN /\ crashed' = TRUE
                /\ UNCHANGED <<fns, car, cells>>
           ELSE LET n == new_c_function(f, e, id, magic) IN
                /\ fns' = [fns EXCEPT ![f] = n.fn]
                /\ car' = [car EXCEPT ![f] = n.car]
                /\ cells' = [cells EXCEPT ![f] = [n.cell EXCEPT !.origLive = FALSE]]
                /\ UNCHANGED crashed
    /\ UNCHANGED <<cls, rtThread, ctxs, lastCall>>
    /\ UNCHANGED notBridge

\* a Value holding the function value is copied
CopyFn(f) ==
    /\ ~crashed
    /\ fns[f].state = "live"
    /\ fns[f].refs < MaxRefs
    /\ fns' = [fns EXCEPT ![f].refs = @ + 1]
    /\ UNCHANGED <<cls, rtThread, ctxs, car, cells, lastCall, crashed>>
    /\ UNCHANGED notBridge

\* a Value holding the function value is destroyed.  With the last reference
\* the engine frees the function object, which releases its data value; a
\* carrier whose count reaches 0 is finalized (by the finalizer of its class,
\* when the runtime knows the class).
ReleaseFn(f) ==
    /\ ~crashed
    /\ fns[f].state = "live"
    /\ IF fns[f].refs > 1
       THEN /\ fns' = [fns EXCEPT ![f].refs = @ - 1]
            /\ UNCHANGED <<car, cells>>
       ELSE LET c  == fns[f].data0
                e  == fns[f].ctx
                id == cls.id[Slot(ThreadOf(e))]
            IN  /\ fns' = [fns EXCEPT ![f].refs = 0, ![f].state = "freed"]
                /\ car' = [car EXCEPT ![c].rc = @ - 1]
                /\ cells' = IF car[c].rc = 1 /\ car[c].class \in cls.reg[ctxs[e].rt]
                            THEN [cells EXCEPT ![c] = closure_finalizer(@, car[c], id)]
                            ELSE cells
    /\ UNCHANGED <<cls, rtThread, ctxs, lastCall, crashed>>
    /\ UNCHANGED notBridge

\* run_gc(): a collection pass of runtime r.  The collector frees the objects
\* whose count is covered by references from other garbage; the carrier of
\* a freed function is referenced by no object, so a count it still has is
\* an outside reference and the pass keeps it.
RunGC(r) ==
    /\ ~crashed
    /\ rtThread[r] # 0
    /\ \E f \in Fn : fns[f].state = "freed" /\ ctxs[fns[f].ctx].rt = r /\ ~fns[f].gc
    /\ fns' = [f \in Fn |->
                 IF fns[f].state = "freed" /\ ctxs[fns[f].ctx].rt = r
                 THEN [fns[f] EXCEPT !.gc = TRUE] ELSE fns[f]]
    /\ UNCHANGED <<cls, rtThread, ctxs, car, cells, lastCall, crashed>>
    /\ UNCHANGED notBridge

\* a script-side invocation of function value f: the engine calls the
\* trampoline with its context, this, argc, argv, the function's magic and
\* its data values.  The per-call Context is Context(JS_DupContext(ctx)) and
\* is destroyed on return.
InvokeFn(f, this, args) ==
    /\ ~crashed
    /\ fns[f].state = "live"
    /\ LET e    == fns[f].ctx
           t    == ThreadOf(e)
           ctx_ == Context_ctor(cls, t, ctxs[e].rt)
       IN  /\ cls' = ctx_
           /\ \E undet \in (IF cells[fns[f].data0].heapLive THEN {0} ELSE Fn \cup {0}) :
                LET out == trampoline(car, cells, fns[f].data0, this, Len(args), args,
                                      fns[f].magic, ctx_.id[Slot(t)], undet)
                IN  IF out.crash
                    THEN /\ crashed' = TRUE
                         /\ UNCHANGED lastCall
                    ELSE /\ lastCall' = [fn |-> f, inThis |-> this, inArgs |-> args,
                                         ran |-> out.ran, this |-> out.this,
                                         args |-> out.args, magic |-> out.magic,
                                         log |-> out.log]
                         /\ UNCHANGED crashed
    /\ UNCHANGED <<rtThread, ctxs, fns, car, cells>>
    /\ UNCHANGED notBridge

\* Closures on one thread, one runtime and one context: registration,
\* handles of the function values, invocations, release and collection.
NextBridge ==
    \/ NewRuntime(1, 1)
    \/ NewContext(1, 1)
    \/ \E f \in Fn, magic \in Magics : NewCFunction(1, f, magic, "proceed")
    \/ \E f \in Fn : CopyFn(f)
    \/ \E f \in Fn : ReleaseFn(f)
    \/ RunGC(1)
    \/ \E f \in Fn, this \in ThisVals, args \in ArgLists : InvokeFn(f, this, args)

\* Context constructions on several threads and runtimes: from a runtime,
\* by copy, and the per-call Context of the trampoline of one function.
NextClass ==
    \/ \E t \in Thread, r \in Runtime : NewRuntime(t, r)
    \/ \E e \in ECtx, r \in Runtime : NewContext(e, r)
    \/ \E e \in ECtx : CopyContext(e)
    \/ \E e \in ECtx : DestroyContext(e)
    \/ \E e \in ECtx, outcome \in {"crash", "proceed"} : NewCFunction(e, 1, 0, outcome)
    \/ InvokeFn(1, "global", <<>>)

(***************************************************************************)
(* Strings.  A std::string is a sequence of bytes; an engine string is a   *)
(* sequence of code points.  JS_NewStringLen reads its buffer as UTF-8: a  *)
(* well-formed sequence becomes its code point, a byte that starts none    *)
(* becomes U+FFFD.  JS_ToCStringLen writes the code points as UTF-8.       *)
(***************************************************************************)
Bytes == {0, 65, 169, 195, 255}

ByteSeqs == UNION {[1..n -> Bytes] : n \in 0..MaxLen}

IsCont(b) == b >= 128 /\ b < 192

\* number of continuation bytes a lead byte announces (0: not a lead byte)
Trail(b) ==
    CASE b >= 192 /\ b < 224 -> 1
      [] b >= 224 /\ b < 240 -> 2
      [] b >= 240 /\ b < 248 -> 3
      [] OTHER -> 0

\* smallest code point that needs l continuation bytes
MinCode(l) == CASE l = 1 -> 128 [] l = 2 -> 2048 [] OTHER -> 65536

\* payload bits of a lead byte with l continuation bytes
LeadBits(b, l) == CASE l = 1 -> b - 192 [] l = 2 -> b - 224 [] OTHER -> b - 240

RECURSIVE Accumulate(_, _, _, _)
Accumulate(s, i, l, c) ==
    IF l = 0 THEN c
    ELSE IF ~IsCont(s[i]) THEN -1
    ELSE Accumulate(s, i + 1, l - 1, c * 64 + (s[i] - 128))

\* the code point that starts at s[i] and the index after it; c = -1 when
\* no well-formed sequence starts there
unicode_from_utf8(s, i) ==
    LET b == s[i]
        l == Trail(b)
    IN  IF b < 128 THEN [c |-> b, next |-> i + 1]
        ELSE IF l = 0 \/ i + l > Len(s) THEN [c |-> -1, next |-> i]
        ELSE LET c == Accumulate(s, i + 1, l, LeadBits(b, l)) IN
             IF c < MinCode(l) THEN [c |-> -1, next |-> i]
             ELSE [c |-> c, next |-> i + 1 + l]

RECURSIVE SkipCont(_, _)
SkipCont(s, i) == IF i <= Len(s) /\ IsCont(s[i]) THEN SkipCont(s, i + 1) ELSE i

\* where decoding resumes after a byte that starts no sequence
SkipInvalid(s, i) ==
    LET j == SkipCont(s, i) IN
    IF j <= Len(s) THEN SkipCont(s, j + 1) ELSE j

RECURSIVE Decode(_, _)
Decode(s, i) ==
    IF i > Len(s) THEN <<>>
    ELSE LET r == unicode_from_utf8(s, i) IN
         IF r.c >= 0 /\ r.c <= 1114111
         THEN <<r.c>> \o Decode(s, r.next)
         ELSE <<65533>> \o Decode(s, SkipInvalid(s, i))

JS_NewStringLen(buf, len) == Decode(SubSeq(buf, 1, len), 1)

EncodeOne(c) ==
    CASE c < 128   -> <<c>>
      [] c < 2048  -> <<192 + (c \div 64), 128 + (c % 64)>>
      [] c < 65536 -> <<224 + (c \div 4096), 128 + ((c \div 64) % 64), 128 + (c % 64)>>
      [] OTHER     -> <<240 + (c \div 262144), 128 + ((c \div 4096) % 64),
                        128 + ((c \div 64) % 64), 128 + (c % 64)>>

RECURSIVE Encode(_)
Encode(js) == IF js = <<>> THEN <<>> ELSE EncodeOne(Head(js)) \o Encode(Tail(js))

\* the UTF-8 view of an engine string and its length
JS_ToCStringLen(js) == LET chars == Encode(js) IN [chars |-> chars, len |-> Len(chars)]

\* new_string: JS_NewStringLen(m_context, str.c_str(), str.size())
new_string(str) == JS_NewStringLen(str, Len(str))

\* to_std_string: std::string str(chars, len); JS_FreeCString(chars); return str
to_std_string(js) ==
    LET view == JS_ToCStringLen(js)
        str  == SubSeq(view.chars, 1, view.len)
    IN  [str |-> str, got |-> 1, freed |-> 1]

InitStr == text = [done |-> FALSE, s |-> <<>>, js |-> <<>>, out |-> <<>>,
                   got |-> 0, freed |-> 0]

\* to_std_string(new_string(s))
RoundTrip(s) ==
    /\ LET js == new_string(s)
           r  == to_std_string(js)
       IN  text' = [done |-> TRUE, s |-> s, js |-> js, out |-> r.str,
                    got |-> r.got, freed |-> r.freed]
    /\ UNCHANGED notStr

NextStr == \E s \in ByteSeqs : RoundTrip(s)

(***************************************************************************)
(* qjs::Runtime.  The constructor creates an engine runtime instance, the  *)
(* move constructor is the defaulted one, the destructor frees the         *)
(* instance m_ref points to.                                               *)
(***************************************************************************)
RObj == 1..MaxRtObj

NoRObj == [state |-> "unborn", ptr |-> 0, movedFrom |-> FALSE]

JS_NewRuntime(ri, i) == [ri EXCEPT ![i] = [made |-> TRUE, frees |-> 0]]

JS_FreeRuntime(ri, i) == [ri EXCEPT ![i].frees = @ + 1]

\* Runtime(): m_ref(JS_NewRuntime())
Runtime_ctor(i) == [state |-> "live", ptr |-> i, movedFrom |-> FALSE]

\* Runtime(Runtime&&) = default: m_ref is copied member by member, the
\* source keeps its pointer
Runtime_move(src) ==
    [new |-> [state |-> "live", ptr |-> src.ptr, movedFrom |-> FALSE],
     src |-> [src EXCEPT !.movedFrom = TRUE]]

\* ~Runtime(): JS_FreeRuntime(m_ref.m_runtime), whatever the object's history
Runtime_dtor(ri, o) == JS_FreeRuntime(ri, o.ptr)

InitRt ==
    /\ robj = [o \in RObj |-> NoRObj]
    /\ rinst = [i \in Runtime |-> [made |-> FALSE, frees |-> 0]]
    /\ rub = FALSE

NextRObj(o) == \A q \in RObj : q < o => robj[q].state # "unborn"

ConstructRuntime(o, i) ==
    /\ ~rub
    /\ robj[o].state = "unborn" /\ NextRObj(o)
    /\ ~rinst[i].made /\ \A j \in Runtime : j < i => rinst[j].made
    /\ rinst' = JS_NewRuntime(rinst, i)
    /\ robj' = [robj EXCEPT ![o] = Runtime_ctor(i)]
    /\ UNCHANGED rub
    /\ UNCHANGED notRt

\* Runtime o(std::move(src))
MoveRuntime(o, src) ==
    /\ ~rub
    /\ robj[o].state = "unborn" /\ NextRObj(o)
    /\ robj[src].state = "live"
    /\ LET m == Runtime_move(robj[src]) IN
        robj' = [robj EXCEPT ![o] = m.new, ![src] = m.src]
    /\ UNCHANGED <<rinst, rub>>
    /\ UNCHANGED notRt

DestroyRuntime(o) ==
    /\ ~rub
    /\ robj[o].state = "live"
    /\ rinst' = Runtime_dtor(rinst, robj[o])
    /\ rub' = (rinst[robj[o].ptr].frees >= 1)
    /\ robj' = [robj EXCEPT ![o].state = "dead"]
    /\ UNCHANGED notRt

NextRt ==
    \/ \E o \in RObj, i \in Runtime : ConstructRuntime(o, i)
    \/ \E o \in RObj, src \in RObj : MoveRuntime(o, src)
    \/ \E o \in RObj : DestroyRuntime(o)

(***************************************************************************)
(* set_property and the references it hands to the engine.  The receiver   *)
(* has one property written by name and one written by index.  The         *)
(* engine's write takes over the reference that comes with the JSValue it  *)
(* is given (it does not take one of its own) and releases the value the   *)
(* property held before.                                                   *)
(***************************************************************************)
Keys == {"name", "idx"}

NoCallYet == [op |-> "none", args |-> <<>>, argc |-> 0, argv |-> <<>>,
              ret |-> 0, hret |-> 0]

InitOwn ==
    /\ slots = [name |-> 0, idx |-> 0, extensible |-> TRUE]
    /\ ocall = NoCallYet

\* JS_SetPropertyStr / JS_SetPropertyUint32 as far as references go
JS_SetProperty_consume(e, sl, key, v) ==
    [eng |-> IF sl[key] # 0 THEN JS_FreeValue(e, sl[key]) ELSE e,
     slots |-> [sl EXCEPT ![key] = v]]

\* set_property(prop or idx, val): val.m_value is passed as it is
set_property_own(e, sl, key, v) ==
    IF ~sl.extensible THEN [ret |-> FALSE, eng |-> e, slots |-> sl]
    ELSE LET w == JS_SetProperty_consume(e, sl, key, v) IN
         [ret |-> TRUE, eng |-> w.eng, slots |-> w.slots]

\* receiver.set_property(key, val), val the Handle h
SetPropertyOwn(key, h) ==
    /\ hstate[h] = "live"
    /\ LET r == set_property_own(eng, slots, key, hval[h]) IN
        /\ eng' = r.eng
        /\ slots' = r.slots
    /\ UNCHANGED <<ext, made, hstate, hval, copies, assigned, nAssign, ocall>>
    /\ UNCHANGED notOwn

PreventExtensionsOwn ==
    /\ slots.extensible
    /\ slots' = [slots EXCEPT !.extensible = FALSE]
    /\ UNCHANGED ocall
    /\ UNCHANGED handleVars
    /\ UNCHANGED notOwn

\* a release ran on a referent whose count was 0 already: the referent was
\* freed before, the process is beyond defined behaviour
UseAfterFree == \E v \in Val : made[v] /\ eng.rc[v] < 0

\* Handles are made, copied and destroyed, and stored as properties
NextAlias ==
    \/ \E h \in Hnd, v \in Val, x \in 0..MaxExt : ~UseAfterFree /\ NewValue(h, v, x)
    \/ \E h \in Hnd, src \in Hnd : ~UseAfterFree /\ CopyConstruct(h, src)
    \/ \E h \in Hnd : ~UseAfterFree /\ Destroy(h)
    \/ \E key \in Keys, h \in Hnd : ~UseAfterFree /\ SetPropertyOwn(key, h)
    \/ ~UseAfterFree /\ PreventExtensionsOwn

(***************************************************************************)
(* call and invoke and the references they lend.  The engine's call        *)
(* primitives borrow the callee, this and the arguments (their counts are  *)
(* on return what they were) and hand back either a fresh value with one   *)
(* reference, which the caller owns, or the exception marker (ret = 0),    *)
(* which is not counted.                                                   *)
(***************************************************************************)
JS_Call_borrow(e, func, this, argc, argv, callee, fresh) ==
    [eng  |-> IF callee = "returns" THEN [e EXCEPT !.rc[fresh] = 1] ELSE e,
     ret  |-> IF callee = "returns" THEN fresh ELSE 0,
     argc |-> argc,
     argv |-> [i \in 1..argc |-> argv[i]]]

JS_Invoke_borrow(e, obj, atom, argc, argv, callee, fresh) ==
    JS_Call_borrow(e, obj, obj, argc, argv, callee, fresh)

\* std::vector<JSValueConst> c_args: push_back(value.m_value) for each
\* element of args, in order
RECURSIVE c_args_of(_)
c_args_of(args) ==
    IF args = <<>> THEN <<>> ELSE <<Head(args)>> \o c_args_of(Tail(args))

RECURSIVE c_args_of_Dup(_, _)
c_args_of_Dup(e, args) ==
    IF args = <<>> THEN [eng |-> e, c_args |-> <<>>]
    ELSE LET rest == c_args_of_Dup(JS_DupValue(e, Head(args)), Tail(args)) IN
         [eng |-> rest.eng, c_args |-> <<Head(args)>> \o rest.c_args]

call_own_Dup(e, func, this, args, callee, fresh) ==
    LET c == c_args_of_Dup(e, args)
        r == JS_Call_borrow(c.eng, func, this, Len(c.c_args), c.c_args, callee, fresh)
        w == Value_own(r.eng, r.ret)
    IN  [eng |-> w.eng, value |-> w.value, argc |-> r.argc, argv |-> r.argv,
         atoms |-> 0]

\* call(this_obj, args): JS_Call(m_context, m_value, this_obj.m_value, c_argc,
\* c_args.data()), and Value(std::move(value), m_context) of its result
call_own(e, func, this, args, callee, fresh) ==
    LET c_args == c_args_of(args)
        c_argc == Len(c_args)
        r == JS_Call_borrow(e, func, this, c_argc, c_args, callee, fresh)
        w == Value_own(r.eng, r.ret)
    IN  [eng |-> w.eng, value |-> w.value, argc |-> r.argc, argv |-> r.argv,
         atoms |-> 0]

\* invoke(prop, args): the atom of prop is made before JS_Invoke and freed
\* after it; atoms is the number of atoms still held on return
invoke_own(e, obj, args, callee, fresh) ==
    LET c_args == c_args_of(args)
        c_argc == Len(c_args)
        atom == 1
        r == JS_Invoke_borrow(e, obj, atom, c_argc, c_args, callee, fresh)
        w == Value_own(r.eng, r.ret)
    IN  [eng |-> w.eng, value |-> w.value, argc |-> r.argc, argv |-> r.argv,
         atoms |-> atom - 1]

\* sequences of at most MaxArgs live Handles
HandleLists ==
    UNION {[1..n -> {h \in Hnd : hstate[h] = "live"}] : n \in 0..MaxArgs}

\* the Handle and the engine value a returning call produces
FreshHandle(h) == hstate[h] = "unborn" /\ NextHandle(h)

FreshValue(v) == ~made[v] /\ NextValue(v)

\* what a call or invoke leaves behind: the engine state, the returned
\* Handle h over value r.value (none for the exception marker)
Returned(op, r, args, h) ==
    /\ eng' = r.eng
    /\ ocall' = [op |-> op, args |-> args, argc |-> r.argc, argv |-> r.argv,
                 ret |-> r.value, hret |-> IF r.value = 0 THEN 0 ELSE h]
    /\ IF r.value = 0
       THEN UNCHANGED <<made, hstate, hval>>
       ELSE /\ made' = [made EXCEPT ![r.value] = TRUE]
            /\ hstate' = [hstate EXCEPT ![h] = "live"]
            /\ hval' = [hval EXCEPT ![h] = r.value]
    /\ UNCHANGED <<ext, copies, assigned, nAssign, slots>>
    /\ UNCHANGED notOwn

\* hf.call(ht, args)
CallOwn(hf, ht, hargs, callee, h, v) ==
    /\ hstate[hf] = "live" /\ hstate[ht] = "live"
    /\ FreshHandle(h) /\ FreshValue(v)
    /\ LET args == [i \in 1..Len(hargs) |-> hval[hargs[i]]] IN
        Returned("call", call_own(eng, hval[hf], hval[ht], args, callee, v), args, h)

\* ho.invoke(prop, args)
InvokeOwn(ho, hargs, callee, h, v) ==
    /\ hstate[ho] = "live"
    /\ FreshHandle(h) /\ FreshValue(v)
    /\ LET args == [i \in 1..Len(hargs) |-> hval[hargs[i]]] IN
        Returned("invoke", invoke_own(eng, hval[ho], args, callee, v), args, h)

\* Handles are made and destroyed, and used as callee, this and arguments
NextCall ==
    \/ \E h \in Hnd, v \in Val, x \in 0..MaxExt : NewValue(h, v, x)
    \/ \E h \in Hnd : Destroy(h)
    \/ \E hf \in Hnd, ht \in Hnd, hargs \in HandleLists, callee \in Callees,
          h \in Hnd, v \in Val : CallOwn(hf, ht, hargs, callee, h, v)
    \/ \E ho \in Hnd, hargs \in HandleLists, callee \in Callees,
          h \in Hnd, v \in Val : InvokeOwn(ho, hargs, callee, h, v)

\* Context objects over the engine contexts of the runtimes: construction
\* from a runtime, copy construction, copy assignment, destruction.
NextCtx ==
    \/ \E t \in Thread, r \in Runtime : NewRuntime(t, r)
    \/ \E e \in ECtx, r \in Runtime : NewContext(e, r)
    \/ \E e \in ECtx : CopyContext(e)
    \/ \E ea \in ECtx, eb \in ECtx : AssignContext(ea, eb)
    \/ \E e \in ECtx : DestroyContext(e)

Init == InitHandle /\ InitProp /\ InitConv /\ InitBridge /\ InitStr /\ InitRt /\ InitOwn

Next ==
    \/ \E h \in Hnd, v \in Val, x \in 0..MaxExt : NewValue(h, v, x)
    \/ \E h \in Hnd, src \in Hnd : CopyConstruct(h, src)
    \/ \E a \in Hnd, b \in Hnd : Assign(a, b)
    \/ \E h \in Hnd : Destroy(h)

Spec == Init /\ [][Next]_vars

SpecProp == Init /\ [][NextProp]_vars

SpecConv == Init /\ [][NextConv]_vars

SpecBridge == Init /\ [][NextBridge]_vars

SpecClass == Init /\ [][NextClass]_vars

SpecCtx == Init /\ [][NextCtx]_vars

SpecStr == Init /\ [][NextStr]_vars

SpecRt == Init /\ [][NextRt]_vars

SpecAlias == Init /\ [][NextAlias]_vars

SpecCall == Init /\ [][NextCall]_vars

(***************************************************************************)
(* C1: reference-count symmetry of Handle.  For a referent whose handles   *)
(* were only copy-constructed (N copies) and destroyed: the copies made N  *)
(* JS_DupValue calls; while handles are alive the count is the outside     *)
(* references plus one per live handle; once all N+1 handles are destroyed *)
(* there were N dups and N+1 frees and the count is back at the outside    *)
(* references, i.e. without the reference the first handle took over.  The *)
(* referent is never freed more often than it was acquired.                *)
(***************************************************************************)
C1_RefcountSymmetry ==
    \A v \in Val : made[v] =>
        /\ eng.frees[v] <= 1 + eng.dups[v]
        /\ ~assigned[v] =>
            /\ eng.dups[v] = copies[v]
            /\ eng.rc[v] = ext[v] + Cardinality(LiveOn(v))
            /\ (LiveOn(v) = {}) =>
                /\ eng.frees[v] = copies[v] + 1
                /\ eng.rc[v] = ext[v]

C1_Witness ==
    \E v \in Val :
        /\ made[v] /\ ~assigned[v] /\ LiveOn(v) = {}
        /\ copies[v] = 2 /\ eng.frees[v] = 3 /\ ext[v] = 1 /\ eng.rc[v] = 1

(***************************************************************************)
(* C2: guaranteed release under assignment.  Once no Handle remains, every *)
(* reference a Handle ever owned (the one taken over at construction and   *)
(* one per dup) has been released exactly once, so every referent is back  *)
(* at its outside references.                                              *)
(***************************************************************************)
C2_GuaranteedRelease ==
    (\A h \in Hnd : hstate[h] # "live") =>
        \A v \in Val : made[v] =>
            /\ eng.frees[v] = 1 + eng.dups[v]
            /\ eng.rc[v] = ext[v]


(***************************************************************************)
(* C3: get_property(idx) on an object whose length property is the number  *)
(* L returns a value exactly for idx < L, and returns none on an object    *)
(* without a numeric length property.                                      *)
(***************************************************************************)
C3_IndexBound ==
    last.op = "get_idx" =>
        IF recv.named["length"].t = "num"
        THEN last.some <=> (last.idx < recv.named["length"].n)
        ELSE ~last.some

(***************************************************************************)
(* C4: mutation refusal.  A set_property (by name or by index, any value)  *)
(* on a receiver that prevent_extensions() has made non-extensible returns *)
(* false and leaves the receiver exactly as it was, so a later             *)
(* get_property sees what it saw before the attempt.                       *)
(***************************************************************************)
C4_MutationRefusal ==
    [][(~recv.extensible /\ last'.op \in {"set_str", "set_idx"})
          => (last'.ret = FALSE /\ recv' = recv)]_vars

\* a refused write to a property that exists (the engine by itself would
\* have overwritten it), and a refused write by index
C4_Witness ==
    /\ ~recv.extensible
    /\ last.op = "set_str" /\ last.name = "x" /\ last.ret = FALSE
    /\ recv.named["x"] = Num(0)
    /\ recv.elems[0] = Str


(***************************************************************************)
(* C5: Result protocol of the scalar conversions.  Each conversion returns *)
(* the Exception case exactly when the engine coercion reports failure;    *)
(* the Exception then carries the pending exception the coercion left, and *)
(* the pending exception is cleared when the conversion returns; on        *)
(* success the converted value is returned (for to_bool: whether the       *)
(* status is non-zero) and the pending exception is as it was.             *)
(***************************************************************************)
C5_ResultProtocol ==
    [][res'.op \in Conversions =>
         LET e == Coercion(res'.op, pending, res'.arg) IN
         /\ (res'.case = "exception") <=> (e.result = -1)
         /\ (res'.case # "exception") <=> (res'.case = "value")
         /\ e.result = -1 => (res'.exc = e.pending /\ pending' = "null")
         /\ e.result # -1 =>
               /\ pending' = pending
               /\ res'.num = IF res'.op = "to_bool"
                             THEN (IF e.result # 0 THEN 1 ELSE 0) ELSE e.out]_vars

\* a failed conversion: the Exception carries the error the coercion threw
\* and the pending exception is empty again
C5_Witness ==
    /\ res.op = "to_index" /\ res.arg = Symbol
    /\ res.case = "exception" /\ res.exc = "TypeError"
    /\ pending = "null"

(***************************************************************************)
(* C6 as stated: to_int32 of a value the engine cannot convert yields the  *)
(* Exception case, a pending-exception fetch after to_int32 has returned   *)
(* yields a non-empty error value, and a second fetch yields the empty     *)
(* state.                                                                  *)
(***************************************************************************)
C6_FetchAfterFailure ==
    /\ chain.stage >= 1 => chain.case = "exception"
    /\ chain.stage >= 2 => chain.f1 # "null"
    /\ chain.stage = 3 => chain.f2 = "null"

(***************************************************************************)
(* C6 amended: to_int32 of a value the engine cannot convert yields the    *)
(* Exception case, which carries the non-empty error; to_int32 itself has  *)
(* consumed the pending exception, so a fetch after it has returned yields *)
(* the empty state, and so does a second fetch.                            *)
(***************************************************************************)
C6_SingleConsumption ==
    /\ chain.stage >= 1 => (chain.case = "exception" /\ chain.carried \in Errors)
    /\ chain.stage = 1 => pending = "null"
    /\ chain.stage >= 2 => chain.f1 = "null"
    /\ chain.stage = 3 => chain.f2 = "null"

C6_Witness ==
    /\ chain.stage = 3 /\ chain.carried = "TypeError"
    /\ res.op = "get_exception"

(***************************************************************************)
(* C9: eval, call and invoke never consume the pending exception.  When    *)
(* the engine sets it during one of them it is set when the operation      *)
(* returns (and the Handle is the exception marker); a pending exception   *)
(* that was set before is still set after; and the pending exception only  *)
(* goes from set to empty in a step that fetches it, which hands out that  *)
(* non-null error.                                                         *)
(***************************************************************************)
EngineRun(op, src, p) ==
    CASE op = "eval"   -> JS_Eval(p, src)
      [] op = "call"   -> JS_Call(p, src)
      [] op = "invoke" -> JS_Invoke(p, src)

C9_NoConsumption ==
    [][/\ res'.op \in {"eval", "call", "invoke"} =>
            LET e == EngineRun(res'.op, res'.arg.k, pending) IN
            /\ pending' = e.pending
            /\ res'.ret = e.value
            /\ e.value = Marker => pending' \in Errors
            /\ pending # "null" => pending' # "null"
       /\ (pending # "null" /\ pending' = "null") =>
            /\ res'.case = "exception"
            /\ res'.exc \in Errors]_vars

\* eval("{") left the pending exception in place and the fetch returned it
C9_Witness ==
    /\ res.op = "get_exception" /\ res.exc = "SyntaxError"
    /\ pending = "null"


(***************************************************************************)
(* C7: closure release.  Once every reference to the function value is     *)
(* released and a collection pass has run, the heap copy of the closure    *)
(* has been deleted exactly once; it is never deleted twice, and never     *)
(* while the function value is still referenced.                           *)
(***************************************************************************)
C7_ClosureRelease ==
    \A f \in Fn :
        /\ cells[f].deletes <= 1
        /\ fns[f].state = "live" => cells[f].deletes = 0
        /\ (fns[f].state = "freed" /\ fns[f].gc) => cells[f].deletes = 1

(***************************************************************************)
(* C8: closure dispatch.  Every script-side invocation of a function value *)
(* runs, once, the closure that was registered for that function value     *)
(* (the registering code has dropped its original; other closures are     *)
(* registered), with the this value and the arguments the engine supplied, *)
(* in order, and the registered magic.                                     *)
(***************************************************************************)
C8_ClosureDispatch ==
    lastCall.fn # 0 =>
        /\ lastCall.ran = <<lastCall.fn>>
        /\ lastCall.this = lastCall.inThis
        /\ lastCall.args = lastCall.inArgs
        /\ lastCall.magic = fns[lastCall.fn].magic

C8_Witness ==
    /\ lastCall.fn = 2 /\ lastCall.ran = <<2>>
    /\ lastCall.args = <<1, 2>> /\ lastCall.this = "obj" /\ lastCall.magic = 7
    /\ fns[1].state = "live" /\ fns[1].magic = 0
    /\ ~cells[1].origLive /\ ~cells[2].origLive

(***************************************************************************)
(* C10: the carrier class is registered exactly once per thread.  On each  *)
(* thread the first Context construction (from a runtime, by copy, or the  *)
(* per-call Context of the trampoline) allocates the id and registers the  *)
(* class, no later construction on the thread registers again, the id of a *)
(* thread never changes once set, and a construction on one thread leaves  *)
(* the id of every other thread alone.                                     *)
(***************************************************************************)
C10_RegisterOncePerThread ==
    /\ [](\A t \in Thread :
            /\ cls.built[t] = 0 => (cls.regCount[t] = 0 /\ cls.id[t] = 0)
            /\ cls.built[t] >= 1 =>
                  (cls.regCount[t] = 1 /\ cls.regAt[t] = 1 /\ cls.id[t] # 0))
    /\ [][\A t \in Thread :
            /\ cls.id[t] # 0 => cls'.id[t] = cls.id[t]
            /\ cls'.built[t] = cls.built[t] => cls'.id[t] = cls.id[t]]_vars

\* both threads have constructed several Contexts, each registered once
C10_Witness ==
    /\ \A t \in Thread : cls.built[t] = 2 /\ cls.regCount[t] = 1
    /\ cls.id[1] # cls.id[2]
    /\ lastCall.fn # 0

(***************************************************************************)
(* C11: Context reference balance.  Every engine context holds exactly one *)
(* reference per live Context object that refers to it (each construction  *)
(* by copy or by assignment added one, each destruction removed one), so   *)
(* it is not freed while a Context refers to it, it is freed once the last *)
(* Context is gone, and no destruction frees a context that is gone.       *)
(***************************************************************************)
C11_ContextBalance ==
    /\ ~crashed
    /\ \A e \in ECtx : ctxs[e].rc = ctxs[e].wraps

(***************************************************************************)
(* C12: string round trip.  For every byte sequence s, embedded zero bytes *)
(* and the empty sequence included, to_std_string(new_string(s)) is s, and *)
(* the C-string view taken by to_std_string is released exactly once.      *)
(***************************************************************************)
C12_RoundTrip ==
    text.done => (text.out = text.s /\ text.got = 1 /\ text.freed = 1)

(***************************************************************************)
(* C13: Runtime single ownership.  The owner of an engine runtime instance *)
(* is the live Runtime object that points to it and was not moved from.    *)
(* An instance is not freed while it has an owner, it is freed exactly     *)
(* once when it has none left, and JS_FreeRuntime never runs on an         *)
(* instance that is freed already.                                         *)
(***************************************************************************)
C13_SingleOwnership ==
    /\ ~rub
    /\ \A i \in Runtime : rinst[i].made =>
          LET owned == \E o \in RObj : /\ robj[o].state = "live"
                                       /\ robj[o].ptr = i
                                       /\ ~robj[o].movedFrom
          IN  rinst[i].frees = IF owned THEN 0 ELSE 1

(***************************************************************************)
(* C14: no hidden aliasing in set_property.  The reference a property      *)
(* holds is counted in addition to the references of the Handles: every    *)
(* referent's count is at least its outside references plus its live       *)
(* Handles plus the properties that hold it, so destroying a Handle never  *)
(* takes the count below the holders that remain.                          *)
(***************************************************************************)
C14_NoHiddenAliasing ==
    \A v \in Val : made[v] =>
        eng.rc[v] >= ext[v] + Cardinality(LiveOn(v))
                            + Cardinality({k \in Keys : slots[k] = v})

(***************************************************************************)
(* Counting the reference events of an invocation                          *)
(***************************************************************************)
CountEv(log, op, obj) == Cardinality({k \in DOMAIN log : log[k] = Ev(op, obj)})

\* the referents the engine lent to the invocation
Lent == {CtxRef, ThisRef} \cup (1..Len(lastCall.inArgs))

(***************************************************************************)
(* C15 as stated: after an invocation the counts of the engine context, of *)
(* the this value and of every argument are what they were, each having    *)
(* been duplicated once and released once; every per-call Handle is        *)
(* destroyed before the per-call Context; the value handed back carries    *)
(* one owned reference that survives the result Handle.                    *)
(***************************************************************************)
C15_DupOnceFreeOnce ==
    lastCall.fn # 0 =>
        \A o \in Lent : /\ CountEv(lastCall.log, "dup", o) = 1
                         /\ CountEv(lastCall.log, "free", o) = 1

(***************************************************************************)
(* C15 amended: after an invocation the counts of the engine context, of   *)
(* the this value and of every argument are what they were: each was       *)
(* duplicated at least once, released exactly as often as it was           *)
(* duplicated, and at no point released more often than duplicated (the    *)
(* context and this once, an argument once by the trampoline and again by  *)
(* every copy the argument vector makes of it).  Every per-call Handle is  *)
(* destroyed before the per-call Context: the release of the context is    *)
(* the last event.  The value handed back is duplicated once, before the   *)
(* result Handle releases its own reference, so it carries one owned       *)
(* reference that survives the result Handle.                              *)
(***************************************************************************)
C15_ReferenceNeutral ==
    lastCall.fn # 0 =>
        LET log == lastCall.log
            upto(k) == SubSeq(log, 1, k)
        IN  /\ \A o \in Lent :
                  /\ CountEv(log, "dup", o) >= 1
                  /\ CountEv(log, "free", o) = CountEv(log, "dup", o)
                  /\ \A k \in DOMAIN log :
                        CountEv(upto(k), "free", o) <= CountEv(upto(k), "dup", o)
            /\ \A k \in DOMAIN log : log[k].obj \in Lent \cup {ResRef}
            /\ log[Len(log)] = Ev("free", CtxRef)
            /\ CountEv(log, "free", CtxRef) = 1
            /\ CountEv(log, "own", ResRef) = 1
            /\ CountEv(log, "dup", ResRef) = 1
            /\ CountEv(log, "free", ResRef) = 1
            /\ \E i, j \in DOMAIN log :
                  i < j /\ log[i] = Ev("dup", ResRef) /\ log[j] = Ev("free", ResRef)

\* an invocation with two arguments: the first was duplicated three times
\* (by the trampoline, by push_back, by the move of the vector)
C15_Witness ==
    /\ lastCall.fn # 0 /\ Len(lastCall.inArgs) = 2
    /\ CountEv(lastCall.log, "dup", 1) = 3
    /\ CountEv(lastCall.log, "free", 1) = 3
    /\ CountEv(lastCall.log, "dup", ThisRef) = 1

(***************************************************************************)
(* C16: set_property reports whether the write was applied.  Whenever      *)
(* set_property (by name or by index) returns true, the property reads as  *)
(* the written value right after; a write the engine rejects returns       *)
(* false.                                                                  *)
(***************************************************************************)
C16_ReportsApplied ==
    (last.op \in {"set_str", "set_idx"} /\ last.ret) => last.took

(***************************************************************************)
(* C17: the carrier class is available wherever closures are registered.   *)
(* Whenever new_c_function runs on a Context, the class id of the thread   *)
(* is registered in the runtime of that Context: no registration runs into *)
(* an unknown class, and every carrier made is of a class its runtime      *)
(* knows.                                                                  *)
(***************************************************************************)
C17_ClassAvailable ==
    /\ ~crashed
    /\ \A f \in Fn : fns[f].state # "none" =>
          car[f].class \in cls.reg[ctxs[fns[f].ctx].rt]

=============================================================================
